---- MODULE Spec2Model ----
(***************************************************************************)
(* A model of dice_simulator.py: the Die class, the input validation, the  *)
(* roll loop, the CSV writer, the statistics and the report, and the main  *)
(* loop that chains them.                                                  *)
(*                                                                         *)
(* Text is a sequence of one-character strings, so that str(), int(),      *)
(* strip() and lower() are modelled by what they do to the characters.     *)
(* A Python name that may be unassigned holds <<>> (no value) or <<v>>.    *)
(***************************************************************************)
EXTENDS Integers, Sequences, FiniteSets, TLC

\* ------------------------------------------------------------------ bounds
\* Largest die size typed at the prompt or passed to Die().
MaxSides == 3
\* Largest roll count typed at the prompt or passed to roll_multiple_dice.
MaxRolls == 4
\* Arguments of the library calls range down to -MaxNeg.
MaxNeg == 1
\* Longest roll sequence handed to the reporting functions.
MaxLongLen == 12
\* Largest die size of the long roll sequences.
MaxLongSides == 6

\* ------------------------------------------------------- program constants
\* display_results: "if len(results) > 10".
PreviewLimit == 10
\* display_results: results[:5] and results[-5:].
PreviewEdge == 5

\* ------------------------------------------------------------------- text
None == <<>>
Some(x) == <<x>>
Val(opt) == opt[1]

Digits == <<"0", "1", "2", "3", "4", "5", "6", "7", "8", "9">>
DigitSet == {Digits[i] : i \in 1..10}
Whitespace == {" ", "\t"}

DigitValue(c) == (CHOOSE i \in 1..10 : Digits[i] = c) - 1

RECURSIVE NatToStr(_)
NatToStr(n) ==
    IF n < 10 THEN <<Digits[n + 1]>>
    ELSE NatToStr(n \div 10) \o <<Digits[(n % 10) + 1]>>

\* str(n) of a Python int.
IntToStr(n) == IF n < 0 THEN <<"-">> \o NatToStr(0 - n) ELSE NatToStr(n)

RECURSIVE LStrip(_)
LStrip(t) ==
    IF t # <<>> /\ Head(t) \in Whitespace THEN LStrip(Tail(t)) ELSE t

RECURSIVE RStrip(_)
RStrip(t) ==
    IF t # <<>> /\ t[Len(t)] \in Whitespace
    THEN RStrip(SubSeq(t, 1, Len(t) - 1))
    ELSE t

\* str.strip().
Strip(t) == RStrip(LStrip(t))

\* str.lower(), on the letters of the model's alphabet.
LowerChar(c) ==
    CASE c = "D" -> "d"
      [] c = "X" -> "x"
      [] c = "Y" -> "y"
      [] c = "N" -> "n"
      [] OTHER -> c

Lower(t) == [i \in 1..Len(t) |-> LowerChar(t[i])]

\* str.startswith(c) for a one-character prefix.
StartsWith(t, c) == t # <<>> /\ Head(t) = c

RECURSIVE DigitsToNat(_)
DigitsToNat(t) ==
    IF t = <<>> THEN 0
    ELSE 10 * DigitsToNat(SubSeq(t, 1, Len(t) - 1)) + DigitValue(t[Len(t)])

AllDigits(t) == t # <<>> /\ \A i \in 1..Len(t) : t[i] \in DigitSet

\* int(text): surrounding whitespace is dropped, one sign is allowed, the
\* rest must be decimal digits; anything else raises ValueError.
PyInt(t) ==
    LET s == Strip(t)
        neg == StartsWith(s, "-")
        signed == neg \/ StartsWith(s, "+")
        body == IF signed THEN Tail(s) ELSE s
    IN  IF AllDigits(body)
        THEN [raised |-> "none",
              val |-> IF neg THEN 0 - DigitsToNat(body) ELSE DigitsToNat(body)]
        ELSE [raised |-> "ValueError", val |-> 0]

\* ------------------------------------------------------------- validation
\* validate_die_size(value).
ValidateDieSize(value) ==
    LET low == Lower(value)
        rest == IF StartsWith(low, "d") THEN Tail(low) ELSE low
        size == PyInt(rest)
    IN  IF size.raised # "none" THEN size
        ELSE IF size.val < 1 THEN [raised |-> "ValueError", val |-> 0]
        ELSE size

\* validate_roll_count(value).
ValidateRollCount_NoRangeCheck(value) == PyInt(value)

ValidateRollCount(value) ==
    LET count == PyInt(value)
    IN  IF count.raised # "none" THEN count
        ELSE IF count.val < 1 THEN [raised |-> "ValueError", val |-> 0]
        ELSE count

\* get_valid_input: "except (ValueError, TypeError)".
CaughtErrors_TypeErrorOnly == {"TypeError"}

CaughtErrors == {"ValueError", "TypeError"}

\* One pass of get_valid_input's loop on the line the user typed:
\* "continue" (empty entry, nothing printed), "reject" (message printed,
\* prompt again), "return" (the validated value) or "raise" (an exception
\* the except clause does not catch).
GetValidInputPass(line, validated) ==
    IF Strip(line) = <<>> THEN [outcome |-> "continue", val |-> 0]
    ELSE IF validated.raised = "none"
         THEN [outcome |-> "return", val |-> validated.val]
    ELSE IF validated.raised \in CaughtErrors
         THEN [outcome |-> "reject", val |-> 0]
    ELSE [outcome |-> "raise", val |-> 0]

\* ------------------------------------------------------------------- Die
\* Die.__init__: "if sides < 1: raise ValueError".
DieInitRaises_OffByOne(sides) == sides < 0

DieInitRaises(sides) == sides < 1

\* random.randint(1, sides): any integer of the closed range.
RandInt_FromZero(lo, hi) == (lo - 1)..hi

RandInt(lo, hi) == lo..hi

\* ------------------------------------------------------------- statistics
Front(s) == SubSeq(s, 1, Len(s) - 1)
Last(s) == s[Len(s)]

\* Counter.__init__ / update: one entry per distinct value, kept in the order
\* the values are first met (a dict keeps insertion order).
CounterAdd(c, x) ==
    IF \E i \in 1..Len(c) : c[i].key = x
    THEN [i \in 1..Len(c) |->
            IF c[i].key = x THEN [key |-> x, count |-> c[i].count + 1] ELSE c[i]]
    ELSE Append(c, [key |-> x, count |-> 1])

RECURSIVE Counter(_)
Counter(results) ==
    IF results = <<>> THEN <<>>
    ELSE CounterAdd(Counter(Front(results)), Last(results))

\* Counter.get(value, 0).
CounterGet(c, value) ==
    IF \E i \in 1..Len(c) : c[i].key = value
    THEN (CHOOSE e \in {c[i] : i \in 1..Len(c)} : e.key = value).count
    ELSE 0

\* Counter.most_common(1)[0]: max(items, key=count), which keeps the first
\* item among those of the largest count. c is not empty.
RECURSIVE MostCommon_LastOfTies(_)
MostCommon_LastOfTies(c) ==
    IF Len(c) = 1 THEN c[1]
    ELSE LET best == MostCommon_LastOfTies(Front(c))
         IN  IF Last(c).count >= best.count THEN Last(c) ELSE best

RECURSIVE MostCommon(_)
MostCommon(c) ==
    IF Len(c) = 1 THEN c[1]
    ELSE LET best == MostCommon(Front(c))
         IN  IF Last(c).count > best.count THEN Last(c) ELSE best

\* min(results), for a results that is not empty. The variant starts its
\* running minimum at 0 instead of at the first value.
RECURSIVE MinOf_FromZero(_)
MinOf_FromZero(results) ==
    IF results = <<>> THEN 0
    ELSE LET m == MinOf_FromZero(Front(results))
         IN  IF Last(results) < m THEN Last(results) ELSE m

RECURSIVE MinOf(_)
MinOf(results) ==
    IF Len(results) = 1 THEN results[1]
    ELSE LET m == MinOf(Front(results))
         IN  IF Last(results) < m THEN Last(results) ELSE m

\* max(results), for a results that is not empty.
RECURSIVE MaxOf(_)
MaxOf(results) ==
    IF Len(results) = 1 THEN results[1]
    ELSE LET m == MaxOf(Front(results))
         IN  IF Last(results) > m THEN Last(results) ELSE m

\* sum(results).
RECURSIVE SumOf(_)
SumOf(results) ==
    IF results = <<>> THEN 0 ELSE SumOf(Front(results)) + Last(results)

RECURSIVE Gcd(_, _)
Gcd(a, b) == IF b = 0 THEN a ELSE Gcd(b, a % b)

\* a / b of two ints, b > 0: the quotient as a fraction in lowest terms.
TrueDiv(a, b) ==
    LET g == Gcd(a, b)
    IN  IF g = 0 THEN [num |-> 0, den |-> 1]
        ELSE [num |-> a \div g, den |-> b \div g]

\* generate_stats(results), for a results that is not empty.
GenerateStats(results) ==
    [min |-> MinOf(results),
     max |-> MaxOf(results),
     mean |-> TrueDiv(SumOf(results), Len(results)),
     mode |-> MostCommon(Counter(results)).key,
     total |-> Len(results)]

\* -------------------------------------------------------------------- CSV
\* csv.writer.writerow(fields): the fields joined by commas (no field of
\* this program needs quoting); the file ends each row with "\r\n".
RECURSIVE WriteRow(_)
WriteRow(fields) ==
    IF Len(fields) = 1 THEN fields[1]
    ELSE WriteRow(Front(fields)) \o <<",">> \o Last(fields)

HeaderFields == << <<"R", "o", "l", "l", " ", "#">>,
                   <<"R", "e", "s", "u", "l", "t">> >>

\* save_to_csv(results, die_size): the rows of the file, the header first.
CsvRows_ZeroIndexed(results) ==
    <<WriteRow(HeaderFields)>> \o
    [i \in 1..Len(results) |->
        WriteRow(<<IntToStr(i - 1), IntToStr(results[i])>>)]

CsvRows(results) ==
    <<WriteRow(HeaderFields)>> \o
    [i \in 1..Len(results) |->
        WriteRow(<<IntToStr(i), IntToStr(results[i])>>)]

\* ----------------------------------------------------------------- report
EllipsisToken == <<".", ".", ".">>

\* results[:k] and results[-k:].
FirstK(s, k) == SubSeq(s, 1, IF k < Len(s) THEN k ELSE Len(s))
LastK(s, k) == SubSeq(s, IF Len(s) - k + 1 > 1 THEN Len(s) - k + 1 ELSE 1, Len(s))

StrAll(s) == [i \in 1..Len(s) |-> IntToStr(s[i])]

\* display_results: map(str, preview), the tokens the "Rolls:" line joins.
PreviewOf_AtLimit(results) ==
    IF Len(results) >= PreviewLimit
    THEN StrAll(FirstK(results, PreviewEdge)) \o <<EllipsisToken>> \o
         StrAll(LastK(results, PreviewEdge))
    ELSE StrAll(results)

PreviewOf(results) ==
    IF Len(results) > PreviewLimit
    THEN StrAll(FirstK(results, PreviewEdge)) \o <<EllipsisToken>> \o
         StrAll(LastK(results, PreviewEdge))
    ELSE StrAll(results)

\* display_results: "for value in range(1, die_size + 1)".
FaceRange_Short(die_size) == 1..(die_size - 1)

FaceRange(die_size) == 1..die_size

\* display_results: the count printed for each face.
FrequencyTable(results, die_size) ==
    [value \in FaceRange(die_size) |-> CounterGet(Counter(results), value)]

\* ------------------------------------------------------------------ state
VARIABLES
    pc,         \* where the program is: a prompt, a call of main, done, crashed
    asked,      \* the prompt the last input() of get_valid_input showed
    entry,      \* the line that input() returned
    printed,    \* whether that pass of get_valid_input printed "Invalid input"
    die_size,   \* main's die_size
    num_rolls,  \* main's num_rolls
    die,        \* main's die: [sides, roll_history]
    comp,       \* the list roll_multiple_dice's comprehension is building
    results,    \* main's results
    file,       \* the rows of the CSV file save_to_csv wrote
    stats,      \* main's stats
    preview,    \* the tokens of display_results' "Rolls:" line
    freq,       \* the counts of display_results' FREQUENCY lines, by face
    plotted,    \* whether try_plot_histogram found matplotlib and drew
    error       \* the exception that ended the program, or "none"

vars == <<pc, asked, entry, printed, die_size, num_rolls, die, comp, results, file,
          stats, preview, freq, plotted, error>>

\* ----------------------------------------------------------------- inputs
\* Lines a user may type: empty and blank lines, text that is no number,
\* and the integers from -MaxNeg to maxN, bare, with a "d" or "D" in front,
\* padded with blanks, signed, or with a leading zero.
OtherTexts ==
    { <<>>, <<" ">>, <<" ", "\t">>, <<"d">>, <<"x">>, <<"D", "x">>,
      <<"d", "d", "2">>, <<"2", "x">>, <<"-">>, <<"1", ".", "5">>,
      <<"+", "2">>, <<"d", " ", "1">>, <<"0", "1">>, <<"d", "-", "1">> }

NumberTexts(maxN) ==
    UNION { { IntToStr(n),
              <<"d">> \o IntToStr(n),
              <<"D">> \o IntToStr(n),
              <<" ">> \o IntToStr(n) \o <<" ">> } : n \in (0 - MaxNeg)..maxN }

InputTexts(maxN) == OtherTexts \cup NumberTexts(maxN)

\* Answers to "Roll again? (y/n): ".
AgainTexts == { <<"y">>, <<"Y">>, <<"n">>, <<>>, <<" ", "y">>, <<"y", "e", "s">> }

\* ------------------------------------------------------------------- main
\* The state main's loop body starts from: no local is assigned. A local of
\* the pass before is never read before it is assigned again, so a new pass
\* starts from the same state as the first.
Init ==
    /\ pc = "die_prompt"
    /\ asked = "none"
    /\ entry = None
    /\ printed = FALSE
    /\ die_size = None
    /\ num_rolls = None
    /\ die = None
    /\ comp = <<>>
    /\ results = None
    /\ file = None
    /\ stats = None
    /\ preview = None
    /\ freq = None
    /\ plotted = None
    /\ error = "none"

\* main: die_size = get_valid_input(..., validate_die_size, ...), one pass of
\* get_valid_input's loop.
MainReadDieSize ==
    /\ pc = "die_prompt"
    /\ \E line \in InputTexts(MaxSides) :
         LET validated == ValidateDieSize(Strip(line))
             pass == GetValidInputPass(line, validated)
         IN  /\ asked' = "die"
             /\ entry' = Some(line)
             /\ printed' = (pass.outcome = "reject")
             /\ die_size' = IF pass.outcome = "return" THEN Some(pass.val) ELSE die_size
             /\ pc' = CASE pass.outcome = "return" -> "rolls_prompt"
                        [] pass.outcome = "raise" -> "crashed"
                        [] OTHER -> pc
             /\ error' = IF pass.outcome = "raise" THEN validated.raised ELSE error
    /\ UNCHANGED <<num_rolls, die, comp, results, file, stats, preview, freq, plotted>>

\* main: num_rolls = get_valid_input(..., validate_roll_count, ...), one pass
\* of get_valid_input's loop.
MainReadRollCount ==
    /\ pc = "rolls_prompt"
    /\ \E line \in InputTexts(MaxRolls) :
         LET validated == ValidateRollCount(Strip(line))
             pass == GetValidInputPass(line, validated)
         IN  /\ asked' = "rolls"
             /\ entry' = Some(line)
             /\ printed' = (pass.outcome = "reject")
             /\ num_rolls' = IF pass.outcome = "return" THEN Some(pass.val) ELSE num_rolls
             /\ pc' = CASE pass.outcome = "return" -> "construct"
                        [] pass.outcome = "raise" -> "crashed"
                        [] OTHER -> pc
             /\ error' = IF pass.outcome = "raise" THEN validated.raised ELSE error
    /\ UNCHANGED <<die_size, die, comp, results, file, stats, preview, freq, plotted>>

\* Die(die_size): Die.__init__.
ConstructDie ==
    /\ pc = "construct"
    /\ IF DieInitRaises(Val(die_size))
       THEN /\ pc' = "crashed"
            /\ error' = "ValueError"
            /\ UNCHANGED <<die, comp>>
       ELSE /\ die' = Some([sides |-> Val(die_size), roll_history |-> <<>>])
            /\ comp' = <<>>
            /\ pc' = "rolling"
            /\ UNCHANGED error
    /\ UNCHANGED <<asked, entry, printed, die_size, num_rolls, results, file, stats,
                   preview, freq, plotted>>

\* roll_multiple_dice: one die.roll() of "for _ in range(num_rolls)".
DieRoll ==
    /\ pc = "rolling"
    /\ Len(comp) < Val(num_rolls)
    /\ \E result \in RandInt(1, Val(die).sides) :
         /\ die' = Some([Val(die) EXCEPT !.roll_history = Append(@, result)])
         /\ comp' = Append(comp, result)
    /\ UNCHANGED <<pc, asked, entry, printed, die_size, num_rolls, results, file, stats,
                   preview, freq, plotted, error>>

\* roll_multiple_dice: range(num_rolls) is used up (at once when
\* num_rolls < 1), the list is returned and bound to results.
RollMultipleDiceReturn ==
    /\ pc = "rolling"
    /\ Len(comp) >= Val(num_rolls)
    /\ results' = Some(comp)
    /\ pc' = "save"
    /\ UNCHANGED <<asked, entry, printed, die_size, num_rolls, die, comp, file, stats,
                   preview, freq, plotted, error>>

\* filename = save_to_csv(results, die_size).
SaveToCsv ==
    /\ pc = "save"
    /\ file' = Some(CsvRows(Val(results)))
    /\ pc' = "stats"
    /\ UNCHANGED <<asked, entry, printed, die_size, num_rolls, die, comp, results, stats,
                   preview, freq, plotted, error>>

\* stats = generate_stats(results); min() of an empty list raises ValueError.
CallGenerateStats ==
    /\ pc = "stats"
    /\ IF Val(results) = <<>>
       THEN /\ pc' = "crashed"
            /\ error' = "ValueError"
            /\ UNCHANGED stats
       ELSE /\ stats' = Some(GenerateStats(Val(results)))
            /\ pc' = "display"
            /\ UNCHANGED error
    /\ UNCHANGED <<asked, entry, printed, die_size, num_rolls, die, comp, results, file,
                   preview, freq, plotted>>

\* display_results(results, stats, die_size); with an empty results the first
\* "count / len(results)" raises ZeroDivisionError.
DisplayResults ==
    /\ pc = "display"
    /\ preview' = Some(PreviewOf(Val(results)))
    /\ IF Val(results) = <<>> /\ FaceRange(Val(die_size)) # {}
       THEN /\ pc' = "crashed"
            /\ error' = "ZeroDivisionError"
            /\ UNCHANGED freq
       ELSE /\ freq' = Some(FrequencyTable(Val(results), Val(die_size)))
            /\ pc' = "plot"
            /\ UNCHANGED error
    /\ UNCHANGED <<asked, entry, printed, die_size, num_rolls, die, comp, results, file,
                   stats, plotted>>

\* try_plot_histogram(results, die_size): matplotlib is there or it is not.
TryPlotHistogram ==
    /\ pc = "plot"
    /\ \E available \in BOOLEAN : plotted' = Some(available)
    /\ pc' = "again"
    /\ UNCHANGED <<asked, entry, printed, die_size, num_rolls, die, comp, results, file,
                   stats, preview, freq, error>>

\* main: "if input(...).lower() != 'y': break".
RollAgain ==
    /\ pc = "again"
    /\ \E answer \in AgainTexts :
         IF Lower(answer) # <<"y">>
         THEN /\ pc' = "done"
              /\ UNCHANGED <<asked, entry, printed, die_size, num_rolls, die, comp,
                             results, file, stats, preview, freq, plotted>>
         ELSE /\ pc' = "die_prompt"
              /\ asked' = "none"
              /\ entry' = None
              /\ printed' = FALSE
              /\ die_size' = None
              /\ num_rolls' = None
              /\ die' = None
              /\ comp' = <<>>
              /\ results' = None
              /\ file' = None
              /\ stats' = None
              /\ preview' = None
              /\ freq' = None
              /\ plotted' = None
    /\ UNCHANGED error

Next ==
    \/ MainReadDieSize
    \/ MainReadRollCount
    \/ ConstructDie
    \/ DieRoll
    \/ RollMultipleDiceReturn
    \/ SaveToCsv
    \/ CallGenerateStats
    \/ DisplayResults
    \/ TryPlotHistogram
    \/ RollAgain

Spec == Init /\ [][Next]_vars

\* ---------------------------------------------------------- library use
\* The functions called directly, with any integer arguments: Die(sides) and
\* roll_multiple_dice(die, num_rolls), then the save and the report.
LibInit ==
    /\ pc = "construct"
    /\ asked = "none"
    /\ entry = None
    /\ printed = FALSE
    /\ die_size \in {Some(s) : s \in (0 - MaxNeg)..MaxSides}
    /\ num_rolls \in {Some(n) : n \in (0 - MaxNeg)..MaxRolls}
    /\ die = None
    /\ comp = <<>>
    /\ results = None
    /\ file = None
    /\ stats = None
    /\ preview = None
    /\ freq = None
    /\ plotted = None
    /\ error = "none"

LibNext ==
    \/ ConstructDie
    \/ DieRoll
    \/ RollMultipleDiceReturn
    \/ SaveToCsv
    \/ CallGenerateStats
    \/ DisplayResults

LibSpec == LibInit /\ [][LibNext]_vars

\* ------------------------------------------------------ long roll sequences
\* A roll sequence of n rolls of a die of the given sides: roll i shows
\* ((a * i + b) mod sides) + 1.
RollPattern(n, sides, a, b) == [i \in 1..n |-> ((a * i + b) % sides) + 1]

RollPatterns ==
    { [sides |-> s, rolls |-> RollPattern(n, s, a, b)] :
        n \in 1..MaxLongLen, s \in 1..MaxLongSides,
        a \in 0..(MaxLongSides - 1), b \in 0..(MaxLongSides - 1) }

\* The state main is in when roll_multiple_dice has returned such a sequence.
ReportInit ==
    /\ pc = "save"
    /\ asked = "none"
    /\ entry = None
    /\ printed = FALSE
    /\ \E p \in RollPatterns :
         /\ die_size = Some(p.sides)
         /\ num_rolls = Some(Len(p.rolls))
         /\ die = Some([sides |-> p.sides, roll_history |-> p.rolls])
         /\ comp = p.rolls
         /\ results = Some(p.rolls)
    /\ file = None
    /\ stats = None
    /\ preview = None
    /\ freq = None
    /\ plotted = None
    /\ error = "none"

ReportNext ==
    \/ SaveToCsv
    \/ CallGenerateStats
    \/ DisplayResults

ReportSpec == ReportInit /\ [][ReportNext]_vars

\* ----------------------------------------------------------------- claims
\* How often value v occurs in the sequence r, and where it occurs first.
Occurrences(r, v) == Cardinality({i \in 1..Len(r) : r[i] = v})
FirstIndex(r, v) ==
    CHOOSE i \in 1..Len(r) : r[i] = v /\ \A j \in 1..(i - 1) : r[j] # v
Values(r) == {r[i] : i \in 1..Len(r)}

RECURSIVE SumUpTo(_, _)
SumUpTo(f, n) == IF n = 0 THEN 0 ELSE SumUpTo(f, n - 1) + f[n]

\* C1: for sides >= 1 and n >= 1, roll_multiple_dice(die, n) returns exactly
\* n values, each of them in 1..die.sides.
C1_RollManyLengthAndRange ==
    (results # None /\ Val(die_size) >= 1 /\ Val(num_rolls) >= 1) =>
        /\ Len(Val(results)) = Val(num_rolls)
        /\ \A i \in 1..Len(Val(results)) :
             1 <= Val(results)[i] /\ Val(results)[i] <= Val(die).sides

C1_Witness ==
    /\ pc = "save"
    /\ die_size = Some(3)
    /\ num_rolls = Some(3)
    /\ results = Some(<<3, 1, 2>>)

\* C2: Die(sides) with sides < 1 raises ValueError and leaves no Die; a Die
\* that exists has sides >= 1, and its sides stay the sides it was built
\* with however many rolls it has made.
C2_DieSidesAtLeastOne ==
    /\ die # None =>
         /\ Val(die).sides >= 1
         /\ Val(die).sides = Val(die_size)
    /\ (Val(die_size) < 1 /\ pc # "construct") =>
         /\ die = None
         /\ pc = "crashed"
         /\ error = "ValueError"

C2_Witness ==
    /\ die_size = Some(0)
    /\ pc = "crashed"
    /\ error = "ValueError"
    /\ die = None

\* C3: a roll count n < 1 ends in a ValueError and yields no sequence, from
\* roll_multiple_dice(die, n) as well as no count from validate_roll_count.
C3_RollCountBelowOneFails ==
    /\ \A n \in (0 - MaxNeg)..0 :
         ValidateRollCount(IntToStr(n)).raised = "ValueError"
    /\ (die # None /\ Val(num_rolls) < 1 /\ pc # "rolling") =>
         /\ results = None
         /\ error = "ValueError"

\* C4: the frequency table of display_results has one entry for each face
\* 1..die_size, the entry of a face is the number of rolls that showed it
\* (0 when none did), and the entries add up to len(results).
C4_FrequencyTable ==
    freq # None =>
        /\ DOMAIN Val(freq) = 1..Val(die_size)
        /\ \A face \in 1..Val(die_size) :
             Val(freq)[face] = Occurrences(Val(results), face)
        /\ SumUpTo(Val(freq), Val(die_size)) = Len(Val(results))

C4_Witness ==
    /\ freq # None
    /\ die_size = Some(3)
    /\ results = Some(<<3, 1, 3>>)
    /\ Val(freq)[2] = 0

\* C5: for a roll sequence of the single value v, generate_stats returns
\* min = max = mean = mode = v and total = 1.
C5_SingleRollStats ==
    (stats # None /\ Len(Val(results)) = 1) =>
        LET v == Val(results)[1]
        IN  /\ Val(stats).min = v
            /\ Val(stats).max = v
            /\ Val(stats).mean.num = v * Val(stats).mean.den
            /\ Val(stats).mode = v
            /\ Val(stats).total = 1

C5_Witness ==
    /\ stats # None
    /\ results = Some(<<3>>)
    /\ Val(stats).min = 3

\* C6: the preview is the whole sequence when it has at most 10 values;
\* when it has more, the preview is 11 tokens: the first 5 values, one
\* "..." and the last 5 values.
C6_Preview ==
    preview # None =>
        LET r == Val(results)
            p == Val(preview)
        IN  IF Len(r) <= 10
            THEN /\ Len(p) = Len(r)
                 /\ \A i \in 1..Len(r) : p[i] = IntToStr(r[i])
            ELSE /\ Len(p) = 11
                 /\ \A i \in 1..5 : p[i] = IntToStr(r[i])
                 /\ p[6] = <<".", ".", ".">>
                 /\ \A i \in 1..5 : p[6 + i] = IntToStr(r[Len(r) - 5 + i])

C6_Witness ==
    /\ preview # None
    /\ Len(Val(results)) = 12
    /\ Len(Val(preview)) = 11
    /\ Val(results)[6] # Val(results)[8]

\* The two fields of a CSV data row read back as numbers: <<>> when the row
\* is not "digits,digits".
RowNumbers(row) ==
    LET commas == {k \in 1..Len(row) : row[k] = ","}
    IN  IF Cardinality(commas) # 1 THEN <<>>
        ELSE LET k == CHOOSE c \in commas : TRUE
                 left == SubSeq(row, 1, k - 1)
                 right == SubSeq(row, k + 1, Len(row))
             IN  IF AllDigits(left) /\ AllDigits(right)
                 THEN <<DigitsToNat(left), DigitsToNat(right)>>
                 ELSE <<>>

\* C7: the file save_to_csv writes starts with the row "Roll #,Result" and
\* then holds one row for each roll, in roll order: row i reads (i, the i-th
\* roll), so the file has len(results) + 1 rows.
C7_CsvRows ==
    file # None =>
        LET r == Val(results)
            f == Val(file)
        IN  /\ Len(f) = Len(r) + 1
            /\ f[1] = <<"R", "o", "l", "l", " ", "#", ",",
                        "R", "e", "s", "u", "l", "t">>
            /\ \A i \in 1..Len(r) : RowNumbers(f[i + 1]) = <<i, r[i]>>

C7_Witness ==
    /\ file # None
    /\ Len(Val(results)) = 12
    /\ Val(file)[13] = <<"1", "2", ",", "5">>

\* C8: main reaches generate_stats and display_results only with
\* len(results) = num_rolls >= 1 and die_size >= 1, and no division by zero
\* ends the program.
C8_NoDivisionByZero ==
    /\ error # "ZeroDivisionError"
    /\ pc \in {"stats", "display"} =>
         /\ Len(Val(results)) = Val(num_rolls)
         /\ Val(num_rolls) >= 1
         /\ Val(die_size) >= 1

C8_Witness ==
    /\ pc = "display"
    /\ num_rolls = Some(1)
    /\ die_size = Some(1)
    /\ Val(stats).mean = [num |-> 1, den |-> 1]

\* C9: the mode of generate_stats occurs at least as often as every other
\* value, and of the values that occur as often as it does, it is the one
\* met first in the roll sequence.
C9_ModeFirstOfTies ==
    stats # None =>
        LET r == Val(results)
            m == Val(stats).mode
        IN  /\ m \in Values(r)
            /\ \A v \in Values(r) :
                 /\ Occurrences(r, v) <= Occurrences(r, m)
                 /\ Occurrences(r, v) = Occurrences(r, m) =>
                      FirstIndex(r, m) <= FirstIndex(r, v)

C9_Witness ==
    /\ stats # None
    /\ results = Some(<<2, 1, 1, 2>>)
    /\ Val(stats).mode = 2

\* What an entry means, told from how the entry was put together and not
\* from how the program reads it: the integers a line of InputTexts spells.
Padded(t) == <<" ">> \o t \o <<" ">>
IsBlank(line) == \A i \in 1..Len(line) : line[i] \in {" ", "\t"}

CountMeanings(line) ==
    {n \in (0 - MaxNeg)..(MaxSides + MaxRolls) :
        \/ line \in {IntToStr(n), Padded(IntToStr(n))}
        \/ n = 2 /\ line = <<"+", "2">>
        \/ n = 1 /\ line = <<"0", "1">>}

DieMeanings(line) ==
    CountMeanings(line) \cup
    {n \in (0 - MaxNeg)..(MaxSides + MaxRolls) :
        \/ line \in {<<"d">> \o IntToStr(n), <<"D">> \o IntToStr(n)}
        \/ n = 1 /\ line = <<"d", " ", "1">>}

\* One call of get_valid_input, seen after its last pass: it is still at its
\* prompt (stays) or has returned value.
PassAsClaimed(line, meanings, stays, value) ==
    IF stays
    THEN \/ IsBlank(line) /\ ~printed
         \/ ~IsBlank(line) /\ printed /\ \A n \in meanings : n < 1
    ELSE /\ ~printed
         /\ value # None
         /\ Val(value) >= 1
         /\ meanings = {Val(value)}

\* C10: get_valid_input never ends the program on a malformed entry: a blank
\* entry prompts again and prints nothing, an entry that is no integer or is
\* below 1 (a leading d or D dropped for a die size) prints the message and
\* prompts again, and it returns only on an accepted entry, with the integer
\* >= 1 that entry spells.
C10_GetValidInput ==
    /\ pc # "crashed"
    /\ error = "none"
    /\ asked = "die" =>
         PassAsClaimed(Val(entry), DieMeanings(Val(entry)),
                       pc = "die_prompt", die_size)
    /\ asked = "rolls" =>
         PassAsClaimed(Val(entry), CountMeanings(Val(entry)),
                       pc = "rolls_prompt", num_rolls)

C10_Witness ==
    /\ asked = "rolls"
    /\ pc = "rolls_prompt"
    /\ entry = Some(<<"d", "2">>)
    /\ printed
    /\ die_size = Some(3)

====
